---- MODULE Spec2Model ----
(***************************************************************************)
(* DHCP reports of evebox (src/elastic/report/dhcp.rs).                    *)
(*                                                                         *)
(* One invocation of dhcp_report: the shared filters are built, the        *)
(* report kind selects one formatter, the formatter builds its request and *)
(* sends it to the event store (the only suspension point), and the        *)
(* response document is reshaped into {"data": [...]}.                     *)
(***************************************************************************)
EXTENDS Integers, Sequences, FiniteSets, TLC

VARIABLES
    pc,        \* "start", "await" (suspended in ds.search(..).await), "done"
    what,      \* the report kind passed to dhcp_report
    params,    \* EventQueryParams: min_timestamp and query_string (Option)
    sent,      \* the requests handed to ds.search, in order
    ran,       \* the formatters entered by the dispatcher, in order
    response,  \* Option: the decoded response document, once received
    result     \* the Result<JsonValue, DatastoreError> of the invocation

vars == <<pc, what, params, sent, ran, response, result>>

-----------------------------------------------------------------------------
(* Bounds of the model.                                                    *)

\* Largest number of buckets (top-level and child buckets together) in one
\* response document.
MaxNodes == 3

-----------------------------------------------------------------------------
(* serde_json::Value, as tagged records.                                   *)

JNull == [t |-> "null"]
JStr(s) == [t |-> "str", s |-> s]
JNum(n) == [t |-> "num", n |-> n]
JArr(a) == [t |-> "arr", a |-> a]
JObj(o) == [t |-> "obj", o |-> o]

\* value[key] with a string key: Null unless value is an object holding key.
Idx(v, k) == IF v.t = "obj" /\ k \in DOMAIN v.o THEN v.o[k] ELSE JNull

\* value[i] with an integer index (0-based): Null unless value is an array
\* that long.
IdxN(v, i) == IF v.t = "arr" /\ i + 1 \in DOMAIN v.a THEN v.a[i + 1] ELSE JNull

\* Option<T>: None is the empty sequence, Some(x) the one-element sequence.
None == <<>>
Some(x) == <<x>>

\* Result<JsonValue, DatastoreError>; Pending before the invocation returns.
Pending == [st |-> "pending"]
Ok(v) == [st |-> "ok", val |-> v]
Err(e) == [st |-> "err", err |-> e]

-----------------------------------------------------------------------------
(* Filter fragments and the request (elastic::request), kept opaque.       *)

term_filter(field, value) == [term |-> <<field, value>>]
timestamp_gte_filter(dt) == [range_gte |-> dt]
query_string_query(q) == [query_string |-> q]

\* The size cap of the top-level terms aggregations.
TermsSize == 10000

\* request.set_filters(filters); request["aggs"] = aggs; request.size(0)
Size0 == 0
NewRequest(filters, aggs) == [filters |-> filters, aggs |-> aggs, size |-> Size0]

TopHitsLatest == [name |-> "latest", kind |-> "top_hits",
                  sort |-> <<"@timestamp", "desc">>, size |-> 1]

AckAggs == [name |-> "client_mac", kind |-> "terms",
            field |-> "dhcp.client_mac.keyword", size |-> Some(TermsSize),
            sub |-> Some(TopHitsLatest)]

RequestAggs == [name |-> "client_mac", kind |-> "terms",
                field |-> "dhcp.client_mac.keyword", size |-> Some(TermsSize),
                sub |-> Some(TopHitsLatest)]

ServersAggs == [name |-> "servers", kind |-> "terms",
                field |-> "src_ip.keyword", size |-> Some(TermsSize),
                sub |-> None]

MacAggs == [name |-> "client_mac", kind |-> "terms",
            field |-> "dhcp.client_mac.keyword", size |-> Some(TermsSize),
            sub |-> Some([name |-> "assigned_ip", kind |-> "terms",
                          field |-> "dhcp.assigned_ip.keyword"])]

IpAggs == [name |-> "assigned_ip", kind |-> "terms",
           field |-> "dhcp.assigned_ip.keyword", size |-> Some(TermsSize),
           sub |-> Some([name |-> "client_mac", kind |-> "terms",
                         field |-> "dhcp.client_mac.keyword"])]

\* SharedFilters with the query-string clause pushed before the timestamp bound.
SharedFiltersQueryFirst(p) ==
    <<term_filter("event_type", "dhcp")>>
    \o (IF p.query_string # None
        THEN <<query_string_query(p.query_string[1])>> ELSE <<>>)
    \o (IF p.min_timestamp # None
        THEN <<timestamp_gte_filter(p.min_timestamp[1])>> ELSE <<>>)

\* The shared filters of dhcp_report, in push order.
SharedFilters(p) ==
    <<term_filter("event_type", "dhcp")>>
    \o (IF p.min_timestamp # None
        THEN <<timestamp_gte_filter(p.min_timestamp[1])>> ELSE <<>>)
    \o (IF p.query_string # None
        THEN <<query_string_query(p.query_string[1])>> ELSE <<>>)

AckRequest(filters) ==
    NewRequest(Append(filters, term_filter("dhcp.dhcp_type", "ack")), AckAggs)

RequestRequest(filters) ==
    NewRequest(Append(filters, term_filter("dhcp.dhcp_type", "request")), RequestAggs)

ServersRequest(filters) ==
    NewRequest(Append(filters, term_filter("dhcp.type", "reply")), ServersAggs)

MacRequest(filters) ==
    NewRequest(Append(filters, term_filter("dhcp.type", "reply")), MacAggs)

IpRequest(filters) ==
    NewRequest(Append(filters, term_filter("dhcp.type", "reply")), IpAggs)

Supported == {"ack", "request", "servers", "mac", "ip"}

-----------------------------------------------------------------------------
(* The formatters: the loops over the response's buckets.                  *)

RECURSIVE AckLoop(_, _, _)
AckLoop(buckets, i, results) ==
    IF i > Len(buckets) THEN results
    ELSE AckLoop(buckets, i + 1,
            Append(results,
                   Idx(IdxN(Idx(Idx(Idx(buckets[i], "latest"), "hits"), "hits"), 0),
                       "_source")))

AckFormat(resp) ==
    LET b == Idx(Idx(Idx(resp, "aggregations"), "client_mac"), "buckets")
        results == IF b.t = "arr" THEN AckLoop(b.a, 1, <<>>) ELSE <<>>
    IN  JObj([data |-> JArr(results)])

\* RequestLoop pushing the hit itself instead of its _source.
RECURSIVE RequestLoopWholeHit(_, _, _)
RequestLoopWholeHit(buckets, i, results) ==
    IF i > Len(buckets) THEN results
    ELSE RequestLoopWholeHit(buckets, i + 1,
            Append(results,
                   IdxN(Idx(Idx(Idx(buckets[i], "latest"), "hits"), "hits"), 0)))

RECURSIVE RequestLoop(_, _, _)
RequestLoop(buckets, i, results) ==
    IF i > Len(buckets) THEN results
    ELSE RequestLoop(buckets, i + 1,
            Append(results,
                   Idx(IdxN(Idx(Idx(Idx(buckets[i], "latest"), "hits"), "hits"), 0),
                       "_source")))

RequestFormat(resp) ==
    LET b == Idx(Idx(Idx(resp, "aggregations"), "client_mac"), "buckets")
        results == IF b.t = "arr" THEN RequestLoop(b.a, 1, <<>>) ELSE <<>>
    IN  JObj([data |-> JArr(results)])

ServersEntry(bucket) ==
    JObj([ip |-> Idx(bucket, "key"), count |-> Idx(bucket, "doc_count")])

\* ServersLoop building the records in reverse order.
RECURSIVE ServersLoopReversed(_, _, _)
ServersLoopReversed(buckets, i, results) ==
    IF i > Len(buckets) THEN results
    ELSE ServersLoopReversed(buckets, i + 1, <<ServersEntry(buckets[i])>> \o results)

RECURSIVE ServersLoop(_, _, _)
ServersLoop(buckets, i, results) ==
    IF i > Len(buckets) THEN results
    ELSE ServersLoop(buckets, i + 1, Append(results, ServersEntry(buckets[i])))

ServersFormat(resp) ==
    LET b == Idx(Idx(Idx(resp, "aggregations"), "servers"), "buckets")
        results == IF b.t = "arr" THEN ServersLoop(b.a, 1, <<>>) ELSE <<>>
    IN  JObj([data |-> JArr(results)])

\* MacKeep without the test against "0.0.0.0".
MacKeepAnyString(v) == Idx(v, "key").t = "str"

\* The inner loop of mac: string keys other than "0.0.0.0" are pushed.
MacKeep(v) == Idx(v, "key").t = "str" /\ Idx(v, "key").s # "0.0.0.0"

\* MacAddrs building the list in reverse order.
RECURSIVE MacAddrsReversed(_, _, _)
MacAddrsReversed(buckets, i, addrs) ==
    IF i > Len(buckets) THEN addrs
    ELSE MacAddrsReversed(buckets, i + 1,
            IF MacKeep(buckets[i])
            THEN <<JStr(Idx(buckets[i], "key").s)>> \o addrs ELSE addrs)

RECURSIVE MacAddrs(_, _, _)
MacAddrs(buckets, i, addrs) ==
    IF i > Len(buckets) THEN addrs
    ELSE MacAddrs(buckets, i + 1,
            IF MacKeep(buckets[i])
            THEN Append(addrs, JStr(Idx(buckets[i], "key").s)) ELSE addrs)

MacEntry(bucket) ==
    LET c == Idx(Idx(bucket, "assigned_ip"), "buckets")
        addrs == IF c.t = "arr" THEN MacAddrs(c.a, 1, <<>>) ELSE <<>>
    IN  JObj([mac |-> Idx(bucket, "key"), addrs |-> JArr(addrs)])

RECURSIVE MacLoop(_, _, _)
MacLoop(buckets, i, results) ==
    IF i > Len(buckets) THEN results
    ELSE MacLoop(buckets, i + 1, Append(results, MacEntry(buckets[i])))

MacFormat(resp) ==
    LET b == Idx(Idx(Idx(resp, "aggregations"), "client_mac"), "buckets")
        results == IF b.t = "arr" THEN MacLoop(b.a, 1, <<>>) ELSE <<>>
    IN  JObj([data |-> JArr(results)])

\* The inner loop of ip: every string key is pushed.
IpKeep(v) == Idx(v, "key").t = "str"

RECURSIVE IpAddrs(_, _, _)
IpAddrs(buckets, i, addrs) ==
    IF i > Len(buckets) THEN addrs
    ELSE IpAddrs(buckets, i + 1,
            IF IpKeep(buckets[i])
            THEN Append(addrs, JStr(Idx(buckets[i], "key").s)) ELSE addrs)

\* IpSkip that never skips.
IpSkipNever(bucket) == FALSE

\* The test at the head of the outer loop of ip.
IpSkip(bucket) == Idx(bucket, "key") = JStr("0.0.0.0")

IpEntry(bucket) ==
    LET c == Idx(Idx(bucket, "client_mac"), "buckets")
        addrs == IF c.t = "arr" THEN IpAddrs(c.a, 1, <<>>) ELSE <<>>
    IN  JObj([ip |-> Idx(bucket, "key"), macs |-> JArr(addrs)])

RECURSIVE IpLoop(_, _, _)
IpLoop(buckets, i, results) ==
    IF i > Len(buckets) THEN results
    ELSE IpLoop(buckets, i + 1,
            IF IpSkip(buckets[i]) THEN results
            ELSE Append(results, IpEntry(buckets[i])))

\* IpFormat answering a null "data" when the buckets are not an array.
IpFormatNullData(resp) ==
    LET b == Idx(Idx(Idx(resp, "aggregations"), "assigned_ip"), "buckets")
    IN  JObj([data |-> IF b.t = "arr" THEN JArr(IpLoop(b.a, 1, <<>>)) ELSE JNull])

IpFormat(resp) ==
    LET b == Idx(Idx(Idx(resp, "aggregations"), "assigned_ip"), "buckets")
        results == IF b.t = "arr" THEN IpLoop(b.a, 1, <<>>) ELSE <<>>
    IN  JObj([data |-> JArr(results)])

-----------------------------------------------------------------------------
(* The response documents the event store may return for a request.  The   *)
(* store mirrors the request's aggregation names; buckets come in the      *)
(* engine's order, by descending document count.                           *)

Empty == [x \in {} |-> JNull]

TopKeys == {Some(JStr("0.0.0.0")), Some(JStr("aa:bb")), Some(JNum(7)), None}

ChildKeys == {Some(JStr("0.0.0.0")), Some(JStr("10.0.0.5")),
              Some(JStr("10.0.0.6")), Some(JNum(7)), None}

SourceDocs == {JObj([event_type |-> JStr("dhcp"), src_ip |-> JStr("10.0.0.1")]),
               JObj([event_type |-> JStr("dhcp"), src_ip |-> JStr("10.0.0.2")])}

MkBucket(key, cnt, extra) ==
    JObj((IF key = None THEN Empty ELSE "key" :> key[1])
         @@ ("doc_count" :> JNum(cnt)) @@ extra)

ChildList(ks) == [i \in 1..Len(ks) |-> MkBucket(ks[i], Len(ks) - i + 1, Empty)]

ChildKeySeqs(n) == UNION {[1..k -> ChildKeys] : k \in 0..n}

\* The top_hits result of a bucket: its hits, each with a _source.
TopHit(ds) ==
    JObj([hits |-> JObj([hits |-> JArr([i \in 1..Len(ds) |-> JObj("_source" :> ds[i])])])])

\* What a top-level bucket carries besides key and doc_count, with at most n
\* child buckets.
Extras(aggs, n) ==
    IF aggs.sub = None THEN {Empty}
    ELSE LET sub == aggs.sub[1] IN
         IF sub.kind = "terms"
         THEN {Empty} \cup {sub.name :> JObj([buckets |-> JArr(ChildList(ks))]) :
                               ks \in ChildKeySeqs(n)}
         ELSE {Empty, sub.name :> TopHit(<<>>)}
              \cup {sub.name :> TopHit(<<d>>) : d \in SourceDocs}

\* The number of child buckets in what Extras built.
ChildCount(extra) ==
    IF \E f \in DOMAIN extra : Idx(extra[f], "buckets").t = "arr"
    THEN LET f == CHOOSE g \in DOMAIN extra : Idx(extra[g], "buckets").t = "arr"
         IN  Len(extra[f].o.buckets.a)
    ELSE 0

RECURSIVE Nodes(_, _)
Nodes(s, i) == IF i > Len(s) THEN 0 ELSE 1 + ChildCount(s[i][2]) + Nodes(s, i + 1)

TopSeqs(aggs) ==
    UNION {{s \in [1..k -> TopKeys \X Extras(aggs, MaxNodes - k)] :
               Nodes(s, 1) <= MaxNodes} : k \in 0..MaxNodes}

TopList(s) == [i \in 1..Len(s) |-> MkBucket(s[i][1], Len(s) - i + 1, s[i][2])]

Docs(aggs) ==
    {JNull,
     JObj(Empty),
     JObj([aggregations |-> JObj(Empty)]),
     JObj([aggregations |-> JObj(aggs.name :> JObj([buckets |-> JNull]))]),
     JObj([aggregations |-> JObj("other" :> JObj([buckets |-> JArr(<<MkBucket(Some(JStr("aa:bb")), 1, Empty)>>)]))])}
    \cup {JObj([aggregations |-> JObj(aggs.name :> JObj([buckets |-> JArr(TopList(s))]))]) :
             s \in TopSeqs(aggs)}

-----------------------------------------------------------------------------
(* The invocation.                                                         *)

Kinds == Supported \cup {"bogus", "leases"}

Params == [min_timestamp : {None, Some("2020-01-01T00:00:00Z")},
           query_string : {None, Some("dhcp.hostname:printer")}]

Init ==
    /\ pc = "start"
    /\ what \in Kinds
    /\ params \in Params
    /\ sent = <<>>
    /\ ran = <<>>
    /\ response = None
    /\ result = Pending

\* A formatter is entered: it builds its request and suspends in ds.search.
Call(f, req) ==
    /\ sent' = Append(sent, req)
    /\ ran' = Append(ran, f)
    /\ pc' = "await"
    /\ UNCHANGED <<what, params, response, result>>

DhcpReportAck ==
    /\ pc = "start" /\ what = "ack"
    /\ Call("dhcp_report_ack", AckRequest(SharedFilters(params)))

DhcpReportRequest ==
    /\ pc = "start" /\ what = "request"
    /\ Call("dhcp_report_request", RequestRequest(SharedFilters(params)))

DhcpReportServers ==
    /\ pc = "start" /\ what = "servers"
    /\ Call("servers", ServersRequest(SharedFilters(params)))

DhcpReportMac ==
    /\ pc = "start" /\ what = "mac"
    /\ Call("mac", MacRequest(SharedFilters(params)))

DhcpReportIp ==
    /\ pc = "start" /\ what = "ip"
    /\ Call("ip", IpRequest(SharedFilters(params)))

\* The default arm falling back to the ack report.
DhcpReportUnknownAsAck ==
    /\ pc = "start" /\ what \notin Supported
    /\ Call("dhcp_report_ack", AckRequest(SharedFilters(params)))

\* The default arm of the match.
DhcpReportUnknown ==
    /\ pc = "start" /\ what \notin Supported
    /\ result' = Err(<<"No DHCP report for ", what>>)
    /\ pc' = "done"
    /\ UNCHANGED <<what, params, sent, ran, response>>

\* A failed search that starts the report over instead of returning.
SearchFailedRetry ==
    /\ pc = "await"
    /\ pc' = "start"
    /\ UNCHANGED <<what, params, sent, ran, response, result>>

\* ds.search(&request).await? fails: the error is returned.
SearchFailed ==
    /\ pc = "await"
    /\ result' = Err(<<"search">>)
    /\ pc' = "done"
    /\ UNCHANGED <<what, params, sent, ran, response>>

\* .json().await? fails: the error is returned.
BodyFailed ==
    /\ pc = "await"
    /\ result' = Err(<<"json">>)
    /\ pc' = "done"
    /\ UNCHANGED <<what, params, sent, ran, response>>

\* The response arrives and the suspended formatter reshapes it.
Reply(doc, value) ==
    /\ response' = Some(doc)
    /\ result' = Ok(value)
    /\ pc' = "done"
    /\ UNCHANGED <<what, params, sent, ran>>

AckReply ==
    /\ pc = "await" /\ ran[Len(ran)] = "dhcp_report_ack"
    /\ \E doc \in Docs(sent[Len(sent)].aggs) : Reply(doc, AckFormat(doc))

RequestReply ==
    /\ pc = "await" /\ ran[Len(ran)] = "dhcp_report_request"
    /\ \E doc \in Docs(sent[Len(sent)].aggs) : Reply(doc, RequestFormat(doc))

\* ServersReply failing with a decode error on a key that is neither a
\* string nor a number.
ServersReplyStrict ==
    /\ pc = "await" /\ ran[Len(ran)] = "servers"
    /\ \E doc \in Docs(sent[Len(sent)].aggs) :
          LET v == ServersFormat(doc) IN
          /\ response' = Some(doc)
          /\ result' = IF \E i \in DOMAIN v.o.data.a :
                               v.o.data.a[i].o.ip.t \notin {"str", "num"}
                        THEN Err(<<"decode">>) ELSE Ok(v)
          /\ pc' = "done"
          /\ UNCHANGED <<what, params, sent, ran>>

ServersReply ==
    /\ pc = "await" /\ ran[Len(ran)] = "servers"
    /\ \E doc \in Docs(sent[Len(sent)].aggs) : Reply(doc, ServersFormat(doc))

MacReply ==
    /\ pc = "await" /\ ran[Len(ran)] = "mac"
    /\ \E doc \in Docs(sent[Len(sent)].aggs) : Reply(doc, MacFormat(doc))

IpReply ==
    /\ pc = "await" /\ ran[Len(ran)] = "ip"
    /\ \E doc \in Docs(sent[Len(sent)].aggs) : Reply(doc, IpFormat(doc))

Next ==
    \/ DhcpReportAck
    \/ DhcpReportRequest
    \/ DhcpReportServers
    \/ DhcpReportMac
    \/ DhcpReportIp
    \/ DhcpReportUnknown
    \/ SearchFailed
    \/ BodyFailed
    \/ AckReply
    \/ RequestReply
    \/ ServersReply
    \/ MacReply
    \/ IpReply

Spec == Init /\ [][Next]_vars

-----------------------------------------------------------------------------
(* Vocabulary of the properties.                                           *)

\* The invocation returned after the store answered with a document.
Replied == pc = "done" /\ response # None

Doc == response[1]

\* The buckets member of the aggregation the request asked for.
TopBuckets == Idx(Idx(Idx(Doc, "aggregations"), sent[1].aggs.name), "buckets")

Top == IF TopBuckets.t = "arr" THEN TopBuckets.a ELSE <<>>

Children(b, name) ==
    LET c == Idx(Idx(b, name), "buckets") IN IF c.t = "arr" THEN c.a ELSE <<>>

Data == result.val.o.data.a

KeyIsNotZero(b) == Idx(b, "key") # JStr("0.0.0.0")

KeyIsStringNotZero(b) == Idx(b, "key").t = "str" /\ Idx(b, "key") # JStr("0.0.0.0")

KeyIsMalformed(b) == Idx(b, "key").t \notin {"str", "num"}

HasZeroKey(bs) == \E j \in DOMAIN bs : Idx(bs[j], "key") = JStr("0.0.0.0")

KeysOf(bs) == [j \in 1..Len(bs) |-> Idx(bs[j], "key")]

\* The top-level buckets the ip report does not skip.
KeptTop == SelectSeq(Top, KeyIsNotZero)

\* The address list of the i-th record of a mac or ip report.
AddrList(i) == IF what = "mac" THEN Data[i].o.addrs.a ELSE Data[i].o.macs.a

\* The name of the child aggregation of the request, if it has one.
SubName == IF sent[1].aggs.sub # None THEN sent[1].aggs.sub[1].name ELSE "none"

HasMalformedKey ==
    \E i \in DOMAIN Top :
        \/ KeyIsMalformed(Top[i])
        \/ \E j \in DOMAIN Children(Top[i], SubName) :
              KeyIsMalformed(Children(Top[i], SubName)[j])

Hit0Source(b) ==
    Idx(IdxN(Idx(Idx(Idx(b, "latest"), "hits"), "hits"), 0), "_source")

Discriminator(w) ==
    CASE w = "ack" -> term_filter("dhcp.dhcp_type", "ack")
      [] w = "request" -> term_filter("dhcp.dhcp_type", "request")
      [] w \in {"servers", "mac", "ip"} -> term_filter("dhcp.type", "reply")

FormatterOf(w) ==
    CASE w = "ack" -> "dhcp_report_ack"
      [] w = "request" -> "dhcp_report_request"
      [] w \in {"servers", "mac", "ip"} -> w

-----------------------------------------------------------------------------
(* C1: for every supported kind and every response document the store      *)
(* returns, the report succeeds with an object whose only member "data" is  *)
(* a sequence; when the top-level buckets array is empty the result is      *)
(* exactly {"data": []}.                                                    *)
C1_EnvelopeAlways ==
    (Replied /\ what \in Supported) =>
        /\ result.st = "ok"
        /\ result.val.t = "obj"
        /\ DOMAIN result.val.o = {"data"}
        /\ result.val.o.data.t = "arr"
        /\ (TopBuckets = JArr(<<>>) => result.val = JObj([data |-> JArr(<<>>)]))

C1_Witness ==
    /\ Replied /\ what = "ip"
    /\ TopBuckets = JArr(<<>>)
    /\ result = Ok(JObj([data |-> JArr(<<>>)]))

(* C2: an unsupported report kind fails with the error naming the kind, and *)
(* no request is ever handed to the event store in that invocation.         *)
C2_UnsupportedNoCall ==
    what \notin Supported =>
        /\ sent = <<>>
        /\ ran = <<>>
        /\ pc \in {"start", "done"}
        /\ (pc = "done" => result = Err(<<"No DHCP report for ", what>>))

C2_Witness ==
    /\ pc = "done" /\ what = "bogus"
    /\ result.st = "err" /\ result.err[2] = "bogus"
    /\ Len(sent) = 0

(* C3 as stated: in the mac and the ip report no address list holds         *)
(* "0.0.0.0", whatever keys the child buckets carry.                        *)
C3_NoZeroAddress ==
    (Replied /\ what \in {"mac", "ip"}) =>
        \A i \in DOMAIN Data : \A j \in DOMAIN AddrList(i) :
            AddrList(i)[j] # JStr("0.0.0.0")

(* C3 amended: in the mac report no addrs list holds "0.0.0.0"; in the ip   *)
(* report the macs list of a record holds "0.0.0.0" exactly when a child    *)
(* bucket of the record's top-level bucket carries that key.                *)
C3_NoZeroAddressMacOnly ==
    /\ (Replied /\ what = "mac") =>
          \A i \in DOMAIN Data : \A j \in DOMAIN AddrList(i) :
              AddrList(i)[j] # JStr("0.0.0.0")
    /\ (Replied /\ what = "ip") =>
          /\ Len(Data) = Len(KeptTop)
          /\ \A i \in DOMAIN Data :
                (\E j \in DOMAIN AddrList(i) : AddrList(i)[j] = JStr("0.0.0.0"))
                    <=> HasZeroKey(Children(KeptTop[i], "client_mac"))

C3_Witness ==
    /\ Replied /\ what = "mac"
    /\ \E i \in DOMAIN Top :
          /\ HasZeroKey(Children(Top[i], "assigned_ip"))
          /\ Len(Children(Top[i], "assigned_ip")) = 2
          /\ Len(AddrList(i)) = 1

(* C4: the ip report skips every top-level bucket whose key is "0.0.0.0":   *)
(* the records are those of the other top-level buckets, one each, in       *)
(* bucket order, and none has ip "0.0.0.0".                                 *)
C4_IpSkipsZero ==
    (Replied /\ what = "ip") =>
        /\ Len(Data) = Len(KeptTop)
        /\ \A i \in DOMAIN Data :
              /\ Data[i].o.ip = Idx(KeptTop[i], "key")
              /\ Data[i].o.ip # JStr("0.0.0.0")

C4_Witness ==
    /\ Replied /\ what = "ip"
    /\ Len(Top) = 3 /\ HasZeroKey(Top)
    /\ Len(Data) = 2 /\ Data[1].o.ip # Data[2].o.ip

(* C5: the servers report has one record per bucket of the "servers"        *)
(* aggregation, in bucket order, the i-th being {ip: key, count: doc_count} *)
(* of the i-th bucket.                                                      *)
C5_ServersOnePerBucket ==
    (Replied /\ what = "servers") =>
        /\ Len(Data) = Len(Top)
        /\ \A i \in DOMAIN Data :
              Data[i] = JObj([ip |-> Idx(Top[i], "key"),
                              count |-> Idx(Top[i], "doc_count")])

C5_Witness ==
    /\ Replied /\ what = "servers"
    /\ Len(Top) >= 2 /\ Len(Data) = Len(Top)
    /\ Idx(Top[1], "key").t = "str" /\ Idx(Top[2], "key").t = "str"
    /\ Idx(Top[1], "key") # Idx(Top[2], "key")

(* C6 as stated: each top-level bucket of the mac report yields one record  *)
(* {mac: key, addrs: L}, L being the keys of its assigned_ip child buckets  *)
(* with every "0.0.0.0" removed, in bucket order.                           *)
C6_MacAddrsAllKeys ==
    (Replied /\ what = "mac") =>
        /\ Len(Data) = Len(Top)
        /\ \A i \in DOMAIN Data :
              Data[i] = JObj([mac |-> Idx(Top[i], "key"),
                              addrs |-> JArr(KeysOf(SelectSeq(
                                  Children(Top[i], "assigned_ip"), KeyIsNotZero)))])

(* C6 amended: L is the string keys of the assigned_ip child buckets other  *)
(* than "0.0.0.0", in bucket order; a child bucket whose key is not a       *)
(* string (a number, null or absent) adds nothing to L.                     *)
C6_MacAddrsStringKeys ==
    (Replied /\ what = "mac") =>
        /\ Len(Data) = Len(Top)
        /\ \A i \in DOMAIN Data :
              Data[i] = JObj([mac |-> Idx(Top[i], "key"),
                              addrs |-> JArr(KeysOf(SelectSeq(
                                  Children(Top[i], "assigned_ip"), KeyIsStringNotZero)))])

C6_Witness ==
    /\ Replied /\ what = "mac"
    /\ Len(Top) = 1
    /\ Idx(Top[1], "key") = JStr("aa:bb")
    /\ KeysOf(Children(Top[1], "assigned_ip")) = <<JStr("10.0.0.5"), JStr("0.0.0.0")>>
    /\ result.val = JObj([data |-> JArr(<<JObj([mac |-> JStr("aa:bb"),
                                                addrs |-> JArr(<<JStr("10.0.0.5")>>)])>>)])

(* C7 as stated: a response holding a bucket whose key is neither a string  *)
(* nor a number makes the report fail with an error.                        *)
C7_MalformedKeyFails ==
    (Replied /\ HasMalformedKey) => result.st = "err"

(* C7 amended: such a response still yields the data envelope and no        *)
(* error: a top-level bucket with such a key yields its record with the key *)
(* copied as it is (null when absent) in the servers, mac and ip reports,   *)
(* and a child bucket with such a key adds nothing to addrs or macs, whose  *)
(* members are all strings.                                                 *)
C7_MalformedKeyTolerated ==
    (Replied /\ HasMalformedKey) =>
        /\ result.st = "ok"
        /\ what = "servers" =>
              /\ Len(Data) = Len(Top)
              /\ \A i \in DOMAIN Top :
                    KeyIsMalformed(Top[i]) => Data[i].o.ip = Idx(Top[i], "key")
        /\ what = "mac" =>
              /\ Len(Data) = Len(Top)
              /\ \A i \in DOMAIN Top :
                    KeyIsMalformed(Top[i]) => Data[i].o.mac = Idx(Top[i], "key")
        /\ what = "ip" =>
              /\ Len(Data) = Len(KeptTop)
              /\ \A i \in DOMAIN KeptTop :
                    KeyIsMalformed(KeptTop[i]) => Data[i].o.ip = Idx(KeptTop[i], "key")
        /\ what \in {"mac", "ip"} =>
              \A i \in DOMAIN Data :
                  /\ \A j \in DOMAIN AddrList(i) : AddrList(i)[j].t = "str"
                  /\ Len(AddrList(i)) <=
                        Len(SelectSeq(Children(IF what = "mac" THEN Top[i] ELSE KeptTop[i],
                                               SubName),
                                      LAMBDA b : ~KeyIsMalformed(b)))

C7_Witness ==
    /\ Replied /\ what = "servers"
    /\ Len(Top) = 2
    /\ KeyIsMalformed(Top[1]) /\ ~KeyIsMalformed(Top[2])
    /\ result.st = "ok"
    /\ Data[1].o.ip = JNull

(* C8: an invocation with a supported kind hands exactly one request to the *)
(* event store; when the search or the reading of its body fails, the       *)
(* invocation has returned that error, without a second request and         *)
(* without a data envelope.                                                 *)
C8_OneCallNoRetry ==
    what \in Supported =>
        /\ pc = "start" => Len(sent) = 0 /\ result = Pending
        /\ pc = "await" => Len(sent) = 1 /\ result = Pending
        /\ pc = "done" => Len(sent) = 1
        /\ (pc = "done" /\ response = None) =>
              result \in {Err(<<"search">>), Err(<<"json">>)}
        /\ (pc = "done" /\ result.st = "ok") => response # None

C8_Witness ==
    /\ pc = "done" /\ what = "mac"
    /\ result = Err(<<"search">>)
    /\ Len(sent) = 1 /\ response = None

(* C9: the request of a supported kind has size 0 and the filters           *)
(* event_type = dhcp, then the timestamp bound if given, then the           *)
(* query-string clause if given, then the kind's discriminator last; one    *)
(* formatter runs.                                                          *)
C9_RequestShape ==
    Len(sent) >= 1 =>
        LET f == sent[1].filters
            n == Len(f)
            ts == params.min_timestamp
            qs == params.query_string
        IN  /\ sent[1].size = 0
            /\ n = 2 + Len(ts) + Len(qs)
            /\ f[1] = term_filter("event_type", "dhcp")
            /\ ts # None => f[2] = timestamp_gte_filter(ts[1])
            /\ qs # None => f[n - 1] = query_string_query(qs[1])
            /\ f[n] = Discriminator(what)
            /\ ran = <<FormatterOf(what)>>

C9_Witness ==
    /\ Len(sent) = 1 /\ what = "ip"
    /\ params.min_timestamp # None /\ params.query_string # None
    /\ Len(sent[1].filters) = 4
    /\ sent[1].filters[4] = term_filter("dhcp.type", "reply")

(* C10: the ack and the request report return the same result for the same  *)
(* response document, one record per top-level client_mac bucket in bucket  *)
(* order, each the _source of hit 0 of the bucket's "latest"; their         *)
(* requests differ in the value of the discriminator filter only.           *)
C10_AckRequestSameAlgorithm ==
    (Replied /\ what \in {"ack", "request"}) =>
        /\ result.st = "ok"
        /\ result.val = AckFormat(Doc)
        /\ result.val = RequestFormat(Doc)
        /\ Len(Data) = Len(Top)
        /\ \A i \in DOMAIN Data : Data[i] = Hit0Source(Top[i])
        /\ LET f == SharedFilters(params)
               a == AckRequest(f)
               r == RequestRequest(f)
               n == Len(a.filters)
           IN  /\ sent[1] = IF what = "ack" THEN a ELSE r
               /\ a.filters[n] = term_filter("dhcp.dhcp_type", "ack")
               /\ r = [a EXCEPT !.filters[n] = term_filter("dhcp.dhcp_type", "request")]

C10_Witness ==
    /\ Replied /\ what = "request"
    /\ Len(Top) = 2 /\ Len(Data) = 2
    /\ Data[1] \in SourceDocs /\ Data[2] \in SourceDocs
    /\ Data[1] # Data[2]

====
